---- MODULE Spec2Model ----
(***************************************************************************)
(* A model of tmDumpTelemetry.py (ForbinP/tmAnalyse): the exclusive-time   *)
(* zone report dump_zone_totals_exclusive, the clock calibration           *)
(* get_clocks_per_second_from_rows and the query builder                   *)
(* build_query_string.                                                     *)
(*                                                                         *)
(* The SQLite store is modelled by its tables (tmzones, tmexpandedtext)    *)
(* and by the set of views of its schema.  What SQL leaves unspecified     *)
(* (the order of rows with equal ORDER BY keys, the row a bare column of   *)
(* an aggregate query is read from) is decided by `engine`, a property of  *)
(* the store that is chosen once and does not change between queries.      *)
(***************************************************************************)
EXTENDS Integers, Sequences, FiniteSets, TLC

VARIABLES
    tmzones,    \* the zone table: a sequence of rows, in storage order
    engine,     \* how the SQL engine resolves what SQL leaves unspecified
    views,      \* the names of the views in the store's schema
    out,        \* the rows the last report wrote to the csv writer
    status,     \* how the last report ended: "none", "ok" or "error"
    prevOut,    \* the rows and status of the report before the last
    call,       \* the arguments of a call of one of the pure functions
    ret         \* what that call returned or raised

vars == <<tmzones, engine, views, out, status, prevOut, call, ret>>

----------------------------------------------------------------------------
(* Bounds of the model *)

MaxTime == 2      \* tsc values are 0..MaxTime
MaxEvents == 3    \* rows in tmzones
MaxSamples == 4   \* rows of tmticks handed to the calibration
MaxTick == 2      \* tick and tsc values of a sample are 0..MaxTick
MaxTps == 2       \* ticks_per_second is 1..MaxTps
MaxCols == 2      \* columns in normal_columns and in text_columns

Depths == {0, 1, 2}
Threads == {1, 2}
NameIds == {1, 2}
Times == 0..MaxTime

----------------------------------------------------------------------------
(* SQL values *)

NULL == [isnull |-> TRUE, v |-> 0]
Val(n) == [isnull |-> FALSE, v |-> n]

\* The fixed-point scale of the ratio columns
Scale == 100000

\* SQLite's integer division: truncates toward zero, NULL on a zero divisor
SqlDiv(a, b) ==
    IF b.isnull \/ a.isnull THEN NULL
    ELSE IF b.v = 0 THEN NULL
    ELSE LET q == (IF a.v < 0 THEN -a.v ELSE a.v) \div (IF b.v < 0 THEN -b.v ELSE b.v)
         IN  Val(IF (a.v < 0) = (b.v < 0) THEN q ELSE -q)

RECURSIVE SumOver(_, _)
\* SUM(f) over the finite set S; f is a function defined on S
SumOver(S, f) ==
    IF S = {} THEN 0
    ELSE LET x == CHOOSE y \in S : TRUE
         IN  f[x] + SumOver(S \ {x}, f)

MinOf(S) == CHOOSE x \in S : \A y \in S : x <= y
MaxOf(S) == CHOOSE x \in S : \A y \in S : x >= y

----------------------------------------------------------------------------
(* The tables *)

\* tmexpandedtext: id -> content.  Contents are strings, modelled by their
\* rank in the collation order; the dictionary holds every string once.
tmexpandedtext == [id \in NameIds |-> 10 * (Cardinality(NameIds) + 1 - id)]

\* Rows are numbered: the code of a row lists its columns, most significant
\* first: start_tsc, end_tsc, depth, thread_id, fullname_id
NumLanes == Cardinality(Depths) * Cardinality(Threads) * Cardinality(NameIds)

RowOf(code) ==
    LET lane == code % NumLanes
        span == code \div NumLanes
    IN  [start_tsc   |-> span \div (MaxTime + 1),
         end_tsc     |-> span % (MaxTime + 1),
         depth       |-> lane \div (Cardinality(Threads) * Cardinality(NameIds)),
         thread_id   |-> 1 + ((lane \div Cardinality(NameIds)) % Cardinality(Threads)),
         fullname_id |-> 1 + (lane % Cardinality(NameIds))]

\* The codes of the rows with end_tsc >= start_tsc
RowCodes ==
    { c \in 0..((MaxTime + 1) * (MaxTime + 1) * NumLanes - 1) :
        (c \div NumLanes) % (MaxTime + 1) >= (c \div NumLanes) \div (MaxTime + 1) }

\* The tables of at most n rows, one storage order (non-decreasing row
\* codes) for every multiset of rows.  Thread ids and name ids are opaque,
\* so tables are listed up to their renaming: the first row is on the first
\* thread and carries the first name id.
Tables(n) ==
    UNION { { [i \in 1..k |-> RowOf(s[i])] :
              s \in { t \in [1..k -> RowCodes] :
                        /\ \A i \in 1..(k - 1) : t[i] <= t[i + 1]
                        /\ k > 0 => t[1] % (Cardinality(Threads) * Cardinality(NameIds)) = 0 } } :
            k \in 0..n }

Dur(r) == r.end_tsc - r.start_tsc

----------------------------------------------------------------------------
(* dump_zone_totals_exclusive *)

elapsed_tsc(z) ==
    IF Len(z) = 0 THEN NULL
    ELSE Val(MaxOf({z[i].end_tsc : i \in 1..Len(z)})
             - MinOf({z[i].start_tsc : i \in 1..Len(z)}))

do_separation_by_depth == FALSE

\* The GROUP BY key of a zone row: fullname_id {, depth}
GroupKey(r) ==
    IF do_separation_by_depth THEN <<r.fullname_id, r.depth>>
    ELSE <<r.fullname_id>>

\* Mutant: the script without its DROP VIEW IF EXISTS
DropViewIfExists_Skipped(v) == v

\* DROP VIEW IF EXISTS ZoneTotals
DropViewIfExists(v) == v \ {"ZoneTotals"}

\* CREATE VIEW ZoneTotals AS ...: an error when the view exists
CreateViewFails(v) == "ZoneTotals" \in v
CreateView(v) == v \cup {"ZoneTotals"}

\* The rows of the view ZoneTotals over the table z: total_tsc per group
ZoneTotals(z) ==
    { [key |-> k,
       total_tsc |-> SumOver({i \in 1..Len(z) : GroupKey(z[i]) = k},
                             [i \in 1..Len(z) |-> Dur(z[i])])] :
      k \in {GroupKey(z[i]) : i \in 1..Len(z)} }

\* Mutant: the join without "c.depth = p.depth + 1": every deeper zone inside
\* p is matched, grandchildren included
ChildOf_AnyDeeper(c, p) ==
    /\ c.start_tsc >= p.start_tsc /\ c.start_tsc <= p.end_tsc
    /\ c.end_tsc <= p.end_tsc
    /\ c.depth > p.depth
    /\ c.thread_id = p.thread_id

\* Mutant: the join without "c.end_tsc <= p.end_tsc": a zone that starts
\* inside p is matched even when it ends after p
ChildOf_NoEndCheck(c, p) ==
    /\ c.start_tsc >= p.start_tsc /\ c.start_tsc <= p.end_tsc
    /\ c.depth = p.depth + 1
    /\ c.thread_id = p.thread_id

\* The ON condition of the self-join: c is a child zone of p
ChildOf(c, p) ==
    /\ c.start_tsc >= p.start_tsc /\ c.start_tsc <= p.end_tsc
    /\ c.end_tsc <= p.end_tsc
    /\ c.depth = p.depth + 1
    /\ c.thread_id = p.thread_id

\* tmzones AS p LEFT JOIN tmzones AS c ON ...: pairs <<p, c>> of row
\* numbers, c = 0 standing for the NULL row of an unmatched p
LeftJoin(z) ==
    { <<p, c>> \in (1..Len(z)) \X (1..Len(z)) : ChildOf(z[c], z[p]) }
    \cup
    { <<p, 0>> : p \in { q \in 1..Len(z) :
                         \A c \in 1..Len(z) : ~ChildOf(z[c], z[q]) } }

\* ... JOIN tmexpandedtext AS t ON t.id = p.fullname_id
\*     JOIN ZoneTotals AS zt ON zt.fullname_id = p.fullname_id {AND zt.depth = p.depth}
JoinRows(z) ==
    LET zt == ZoneTotals(z)
    IN  UNION { { [p |-> x[1], c |-> x[2],
                   name |-> tmexpandedtext[z[x[1]].fullname_id], zt |-> t] :
                  t \in {u \in zt : u.key = GroupKey(z[x[1]])} } :
                x \in { y \in LeftJoin(z) :
                          z[y[1]].fullname_id \in DOMAIN tmexpandedtext } }

\* GROUP BY name {, p.depth}
QueryKey(z, j) ==
    IF do_separation_by_depth THEN <<j.name, z[j.p].depth>> ELSE <<j.name>>

\* The row of a group that the engine reads the bare columns from
\* (zt.total_tsc, p.thread_id, t.content): SQL leaves the row free; the
\* engine's choice shows in the thread it reports
BareRow(z, G, eng) ==
    IF eng.bare = "low"
    THEN CHOOSE j \in G : \A k \in G : z[j.p].thread_id <= z[k.p].thread_id
    ELSE CHOOSE j \in G : \A k \in G : z[j.p].thread_id >= z[k.p].thread_id

\* Mutant: the total summed inside the child-to-parent join, once per join
\* row, which counts an instance once per child it matches
GroupTotal_InJoin(z, G, eng) == SumOver(G, [j \in G |-> Dur(z[j.p])])

\* zt.total_tsc of a group: a bare column, the same in every row of it
GroupTotal(z, G, eng) == BareRow(z, G, eng).zt.total_tsc

\* SUM(IFNULL(c.end_tsc - c.start_tsc, 0)) over the rows of a group
ChildSum(z, G) ==
    SumOver(G, [j \in G |-> IF j.c = 0 THEN 0 ELSE Dur(z[j.c])])

\* zt.total_tsc - SUM(IFNULL(c.end_tsc - c.start_tsc, 0)): the exclusive
\* cycles of a group, before the scaling
ExclCycles(z, G, eng) == GroupTotal(z, G, eng) - ChildSum(z, G)

\* The groups of GROUP BY name {, p.depth}: sets of join rows
Groups(z) ==
    LET J == JoinRows(z)
    IN  { {j \in J : QueryKey(z, j) = k} : k \in {QueryKey(z, j) : j \in J} }

\* One output row of the query, for the group G of join rows
ReportRow(z, G, eng) ==
    LET bare == BareRow(z, G, eng)
        elapsed == elapsed_tsc(z)
    IN  [excl      |-> SqlDiv(Val(ExclCycles(z, G, eng) * Scale), elapsed),
         incl      |-> SqlDiv(Val(GroupTotal(z, G, eng) * Scale), elapsed),
         num_inst  |-> Cardinality({z[j.p].start_tsc : j \in G}),
         name      |-> bare.name,
         thread    |-> z[bare.p].thread_id,
         num_parts |-> Cardinality(G),
         min_depth |-> MinOf({z[j.p].depth : j \in G}),
         max_depth |-> MaxOf({z[j.p].depth : j \in G})]

ReportRows(z, eng) == { ReportRow(z, G, eng) : G \in Groups(z) }

\* ORDER BY excl DESC: a before b.  NULL sorts below every value.
ExclBefore(a, b) ==
    IF a.excl.isnull THEN FALSE
    ELSE IF b.excl.isnull THEN TRUE
    ELSE a.excl.v > b.excl.v

\* The order the engine leaves rows of equal excl in
TieBefore(a, b, eng) ==
    LET ka == a.name * (MaxOf(Depths) + 1) + a.min_depth
        kb == b.name * (MaxOf(Depths) + 1) + b.min_depth
    IN  IF eng.ties = "asc" THEN ka < kb ELSE ka > kb

RowBefore(a, b, eng) ==
    ExclBefore(a, b) \/ (~ExclBefore(b, a) /\ TieBefore(a, b, eng))

RECURSIVE OrderBy(_, _)
OrderBy(S, eng) ==
    IF S = {} THEN <<>>
    ELSE LET x == CHOOSE a \in S : \A b \in S \ {a} : RowBefore(a, b, eng)
         IN  <<x>> \o OrderBy(S \ {x}, eng)

\* dump_zone_totals_exclusive(conn, csv_writer): the whole report
dump_zone_totals_exclusive ==
    /\ call.fn = "dump_zone_totals_exclusive"
    /\ prevOut' = [out |-> out, status |-> status]
    /\ LET dropped == DropViewIfExists(views)
       IN  IF CreateViewFails(dropped)
           THEN /\ views' = dropped
                /\ status' = "error"
                /\ out' = <<>>
           ELSE /\ views' = CreateView(dropped)
                /\ status' = "ok"
                /\ out' = OrderBy(ReportRows(tmzones, engine), engine)
    /\ UNCHANGED <<tmzones, engine, call, ret>>

----------------------------------------------------------------------------
(* The specification of the exclusive-time report *)

\* Example 2 of the documentation: A [0,100] depth 0 with child B [10,60]
Example2 ==
    << [start_tsc |-> 0, end_tsc |-> 100, depth |-> 0, thread_id |-> 1,
        fullname_id |-> 2],
       [start_tsc |-> 10, end_tsc |-> 60, depth |-> 1, thread_id |-> 1,
        fullname_id |-> 1] >>

\* What the engine may do where SQL leaves it free: read the bare columns of
\* a group from a row of its lowest or of its highest thread, and leave rows
\* of equal excl in ascending or descending order of their names
Engines == [bare : {"low", "high"}, ties : {"asc", "desc"}]

Init ==
    /\ tmzones \in Tables(MaxEvents) \cup {Example2}
    /\ engine \in Engines
    /\ views = {}
    /\ out = <<>>
    /\ status = "none"
    /\ prevOut = [out |-> <<>>, status |-> "none"]
    /\ call = [fn |-> "dump_zone_totals_exclusive"]
    /\ ret = [kind |-> "none"]

Next == dump_zone_totals_exclusive

Spec == Init /\ [][Next]_vars

----------------------------------------------------------------------------
(* get_clocks_per_second_from_rows *)

RECURSIVE Gcd(_, _)
Gcd(a, b) == IF b = 0 THEN a ELSE Gcd(b, a % b)

Abs(n) == IF n < 0 THEN -n ELSE n

\* A float, modelled by the rational it stands for: the fraction n/d in
\* lowest terms, d > 0
Float(n, d) ==
    LET g == Gcd(Abs(n), Abs(d))
        sgn == IF d < 0 THEN -1 ELSE 1
    IN  [kind |-> "value", num |-> sgn * (n \div g), den |-> sgn * (d \div g)]

\* rows[i] of Python, i counted from 0: an IndexError outside the sequence
InRange(rows, i) == i >= 0 /\ i < Len(rows)
Item(rows, i) == rows[i + 1]

\* Mutant: the midpoint rounded the other way on even lengths
Mid_Lower(rows) == (Len(rows) - 1) \div 2

\* mid = len(rows) / 2, the integer division of Python 2
Mid(rows) == Len(rows) \div 2

get_clocks_per_second_from_rows(rows, ticks_per_second) ==
    LET mid == Mid(rows)
    IN  IF ~InRange(rows, mid) \/ ~InRange(rows, mid + 1)
        THEN [kind |-> "IndexError"]
        ELSE LET a == Item(rows, mid)
                 b == Item(rows, mid + 1)
                 dtick == b[1] - a[1]
                 dtsc == b[2] - a[2]
             IN  IF dtick = 0
                 THEN [kind |-> "ZeroDivisionError"]
                 ELSE Float(dtsc * ticks_per_second, dtick)

\* The rows of the doctest, with ticks_per_second = 100
DoctestRows == << <<1, 10>>, <<2, 20>>, <<3, 30>>, <<4, 40>>, <<5, 50>> >>
DoctestTps == 100

\* The samples SELECT tick, tsc FROM tmticks ORDER BY tick can return:
\* sequences of at most n pairs, in tick order
SampleSeqs(n) ==
    UNION { { r \in [1..k -> (0..MaxTick) \X (0..MaxTick)] :
                \A i \in 1..(k - 1) : r[i][1] <= r[i + 1][1] } :
            k \in 0..n }

Calibrate ==
    /\ call.fn = "get_clocks_per_second_from_rows"
    /\ ret.kind = "none"
    /\ ret' = get_clocks_per_second_from_rows(call.rows, call.ticks_per_second)
    /\ UNCHANGED <<tmzones, engine, views, out, status, prevOut, call>>

CalInit ==
    /\ tmzones = <<>>
    /\ engine = [bare |-> "low", ties |-> "asc"]
    /\ views = {}
    /\ out = <<>>
    /\ status = "none"
    /\ prevOut = [out |-> <<>>, status |-> "none"]
    /\ call \in { [fn |-> "get_clocks_per_second_from_rows", rows |-> r,
                   ticks_per_second |-> t] :
                  r \in SampleSeqs(MaxSamples), t \in 1..MaxTps }
                \cup
                { [fn |-> "get_clocks_per_second_from_rows", rows |-> DoctestRows,
                   ticks_per_second |-> DoctestTps] }
    /\ ret = [kind |-> "none"]

CalNext == Calibrate

CalSpec == CalInit /\ [][CalNext]_vars

----------------------------------------------------------------------------
(* build_query_string *)

\* A string is modelled by the sequence of the pieces it is put together
\* from: literal text, names and numbers (as text)

RECURSIVE JoinStr(_, _)
\* sep.join(items), items a sequence of strings
JoinStr(sep, items) ==
    IF Len(items) = 0 THEN <<>>
    ELSE IF Len(items) = 1 THEN items[1]
    ELSE items[1] \o sep \o JoinStr(sep, Tail(items))

\* Mutant: every text column reads the first alias
TextItem_FirstAlias(i, name) == <<"text", ToString(0), ".content AS ", name, "_text">>

\* 'text{i}.content AS {name}_text' for i, name in enumerate(text_columns)
TextItem(i, name) == <<"text", ToString(i), ".content AS ", name, "_text">>

\* 'LEFT JOIN tmexpandedtext AS text{i} ON text{i}.id = {col}'
JoinItem(i, column) ==
    <<"LEFT JOIN tmexpandedtext AS ", "text", ToString(i), " ON ",
      "text", ToString(i), ".id = ", column>>

build_query_string(table, normal_columns, text_columns, filter_clause) ==
    LET normal_part ==
            JoinStr(<<", ">>, [i \in 1..Len(normal_columns) |-> <<normal_columns[i]>>])
        text_part ==
            JoinStr(<<", ">>, [i \in 1..Len(text_columns) |->
                                  TextItem(i - 1, text_columns[i])])
        join_clause ==
            JoinStr(<<" ">>, [i \in 1..Len(text_columns) |->
                                 JoinItem(i - 1, text_columns[i])])
    IN  <<"SELECT ">> \o normal_part \o <<", ">> \o text_part
            \o <<" FROM ", table, " ">> \o join_clause \o <<" ">>
            \o <<filter_clause>>

ColumnLists(names, n) == UNION { [1..k -> names] : k \in 0..n }

BuildQuery ==
    /\ call.fn = "build_query_string"
    /\ ret.kind = "none"
    /\ ret' = [kind |-> "value",
               str |-> build_query_string(call.table, call.normal_columns,
                                          call.text_columns, call.filter_clause)]
    /\ UNCHANGED <<tmzones, engine, views, out, status, prevOut, call>>

QueryInit ==
    /\ tmzones = <<>>
    /\ engine = [bare |-> "low", ties |-> "asc"]
    /\ views = {}
    /\ out = <<>>
    /\ status = "none"
    /\ prevOut = [out |-> <<>>, status |-> "none"]
    /\ call \in { [fn |-> "build_query_string", table |-> "tmzones",
                   normal_columns |-> n, text_columns |-> t, filter_clause |-> f] :
                  n \in ColumnLists({"start_tsc", "depth"}, MaxCols),
                  t \in ColumnLists({"fullname_id", "path_id"}, MaxCols),
                  f \in {"", "WHERE depth = 0"} }
    /\ ret = [kind |-> "none"]

QueryNext == BuildQuery

QuerySpec == QueryInit /\ [][QueryNext]_vars

----------------------------------------------------------------------------
(* Properties of the exclusive-time report *)

\* A report has run on the store and returned its rows
ReportDone == call.fn = "dump_zone_totals_exclusive" /\ status = "ok"

Rows == 1..Len(tmzones)
NameOfRow(i) == tmexpandedtext[tmzones[i].fullname_id]
Instances(name) == {i \in Rows : NameOfRow(i) = name}
ZoneNames == {NameOfRow(i) : i \in Rows}
GroupName(G) == (CHOOSE j \in G : TRUE).name
Elapsed == elapsed_tsc(tmzones).v

\* A direct child, as the documentation defines it: same thread, one level
\* deeper, starting inside the parent and ending no later than it
DirectChild(c, p) ==
    /\ c.thread_id = p.thread_id
    /\ c.depth = p.depth + 1
    /\ p.start_tsc <= c.start_tsc /\ c.start_tsc <= p.end_tsc
    /\ c.end_tsc <= p.end_tsc

DirectChildren(p) == {c \in Rows : DirectChild(tmzones[c], tmzones[p])}

\* Sum of (end - start) over every instance of a name, each counted once
InclusiveCycles(name) ==
    SumOver(Instances(name), [i \in Instances(name) |-> Dur(tmzones[i])])

\* Sum, over every instance of a name, of the durations of its direct children
AttributedCycles(name) ==
    SumOver(Instances(name),
            [i \in Instances(name) |->
                SumOver(DirectChildren(i),
                        [c \in DirectChildren(i) |-> Dur(tmzones[c])])])

\* x * 100000 / elapsed, the division truncating toward zero
Scaled(x) ==
    LET q == (Abs(x) * Scale) \div Elapsed
    IN  IF x < 0 THEN -q ELSE q

\* C1: with elapsed > 0, every zone name is reported once, and its exclusive
\* value before the scaling is the sum of the durations of its instances, each
\* counted once, minus the durations of the direct children of each instance:
\* the excl column is that value * 100000 / elapsed.  On Example 2 this gives
\* A inclusive 100, exclusive 50 and B inclusive 50, exclusive 50.
C1_ExclusiveIsTotalMinusDirectChildren ==
    (ReportDone /\ Len(tmzones) > 0 /\ Elapsed > 0) =>
        /\ {out[k].name : k \in 1..Len(out)} = ZoneNames
        /\ Len(out) = Cardinality(ZoneNames)
        /\ \A G \in Groups(tmzones) :
              ExclCycles(tmzones, G, engine)
                = InclusiveCycles(GroupName(G)) - AttributedCycles(GroupName(G))
        /\ \A k \in 1..Len(out) :
              /\ out[k].excl = Val(Scaled(InclusiveCycles(out[k].name)
                                          - AttributedCycles(out[k].name)))
              /\ out[k].incl = Val(Scaled(InclusiveCycles(out[k].name)))
        /\ tmzones = Example2 =>
              /\ { <<GroupName(G), GroupTotal(tmzones, G, engine), ExclCycles(tmzones, G, engine)>> :
                   G \in Groups(tmzones) }
                 = { <<tmexpandedtext[2], 100, 50>>, <<tmexpandedtext[1], 50, 50>> }
              /\ { <<out[k].name, out[k].incl.v, out[k].excl.v>> : k \in 1..Len(out) }
                 = { <<tmexpandedtext[2], 100000, 50000>>,
                     <<tmexpandedtext[1], 50000, 50000>> }

\* C1 witness: a report over a table in which one instance has two direct
\* children of positive duration
C1_Witness ==
    /\ ReportDone /\ Elapsed > 0
    /\ \E p \in Rows : \E c, d \in DirectChildren(p) :
          c # d /\ Dur(tmzones[c]) > 0 /\ Dur(tmzones[d]) > 0

\* C1 witness of the example: the report over Example 2
C1_WitnessExample == ReportDone /\ tmzones = Example2 /\ Len(out) = 2

\* The rows the self-join attributes to an instance as its children
Attributed(p) == {c \in Rows : ChildOf(tmzones[c], tmzones[p])}
AttributedTo(name) == UNION {Attributed(p) : p \in Instances(name)}

\* C2 as stated: the exclusive cycles of every zone name are <= its inclusive
\* cycles, and equal exactly when no event is attributed as a child to any
\* instance of the name.  (Stated over the tables with elapsed > 0, where the
\* report's ratios are defined.)
C2_EqualIffNoChildAttributed ==
    (ReportDone /\ Len(tmzones) > 0 /\ Elapsed > 0) =>
        \A G \in Groups(tmzones) :
            /\ ExclCycles(tmzones, G, engine) <= InclusiveCycles(GroupName(G))
            /\ (ExclCycles(tmzones, G, engine) = InclusiveCycles(GroupName(G)))
                  <=> (AttributedTo(GroupName(G)) = {})

\* C2 amended: the exclusive cycles of every zone name are <= its inclusive
\* cycles, and equal exactly when no event of non-zero duration is attributed
\* as a child to any instance of the name (so also when none is attributed);
\* the reported ratios are ordered the same way.
C2_ExclusiveAtMostInclusive ==
    ReportDone =>
        /\ \A G \in Groups(tmzones) :
              /\ ExclCycles(tmzones, G, engine) <= InclusiveCycles(GroupName(G))
              /\ (ExclCycles(tmzones, G, engine) = InclusiveCycles(GroupName(G)))
                    <=> (\A c \in AttributedTo(GroupName(G)) : Dur(tmzones[c]) = 0)
              /\ AttributedTo(GroupName(G)) = {} =>
                    ExclCycles(tmzones, G, engine) = InclusiveCycles(GroupName(G))
        /\ \A k \in 1..Len(out) :
              ~out[k].excl.isnull => out[k].excl.v <= out[k].incl.v

\* C2 witness: a report in which one name has a child of non-zero duration
\* attributed (exclusive < inclusive) and another has only a zero-duration
\* child attributed (exclusive = inclusive)
C2_Witness ==
    /\ ReportDone
    /\ \E G \in Groups(tmzones) :
          /\ AttributedTo(GroupName(G)) # {}
          /\ ExclCycles(tmzones, G, engine) = InclusiveCycles(GroupName(G))
          /\ InclusiveCycles(GroupName(G)) > 0
    /\ \E G \in Groups(tmzones) :
          ExclCycles(tmzones, G, engine) < InclusiveCycles(GroupName(G))

\* C4 as stated: over a non-empty table whose elapsed cycles are 0, the report
\* fails with an error; it emits no row whose ratio is the result of a
\* division by zero.
C4_ZeroElapsedIsAnError ==
    (call.fn = "dump_zone_totals_exclusive" /\ status # "none"
        /\ Len(tmzones) > 0 /\ Elapsed = 0) =>
        /\ status = "error"
        /\ \A k \in 1..Len(out) : ~out[k].excl.isnull /\ ~out[k].incl.isnull

\* C5 as stated: the rows are in descending order of excl, and rows of equal
\* excl are in the order of their names.  (Stated over the tables with
\* elapsed > 0, where the report's ratios are defined.)
C5_TiesInNameOrder ==
    (ReportDone /\ Len(tmzones) > 0 /\ Elapsed > 0) =>
        \A i, j \in 1..Len(out) :
            i < j =>
                \/ ExclBefore(out[i], out[j])
                \/ /\ out[i].excl = out[j].excl
                   /\ out[i].name < out[j].name

\* C9: a second report on the unchanged store, which finds the view
\* ZoneTotals left by the first, ends as the first did, with the same rows in
\* the same order.
C9_SecondReportSameRows ==
    (call.fn = "dump_zone_totals_exclusive" /\ prevOut.status # "none") =>
        /\ status = "ok"
        /\ prevOut.status = "ok"
        /\ out = prevOut.out

\* C9 witness: two reports have run, the second found the view, and the rows
\* hold two names of equal excl
C9_Witness ==
    /\ ReportDone /\ prevOut.status = "ok" /\ "ZoneTotals" \in views
    /\ Len(out) = 2 /\ out[1].excl = out[2].excl /\ ~out[1].excl.isnull
    /\ out = prevOut.out

\* Well-formed nesting, per thread: two zones either do not overlap or one
\* contains the other and is less deep, and every zone below depth 0 lies
\* inside a zone one level up
Disjoint(a, b) == a.end_tsc <= b.start_tsc \/ b.end_tsc <= a.start_tsc
Inside(c, p) == p.start_tsc <= c.start_tsc /\ c.end_tsc <= p.end_tsc
WellFormed ==
    /\ \A a, b \in Rows :
          (a # b /\ tmzones[a].thread_id = tmzones[b].thread_id) =>
              \/ Disjoint(tmzones[a], tmzones[b])
              \/ Inside(tmzones[a], tmzones[b]) /\ tmzones[a].depth > tmzones[b].depth
              \/ Inside(tmzones[b], tmzones[a]) /\ tmzones[b].depth > tmzones[a].depth
    /\ \A c \in Rows :
          tmzones[c].depth > 0 =>
              \E p \in Rows :
                  /\ tmzones[p].thread_id = tmzones[c].thread_id
                  /\ tmzones[p].depth + 1 = tmzones[c].depth
                  /\ Inside(tmzones[c], tmzones[p])

\* C10: over a well-formed table, the durations of the events the self-join
\* attributes to an instance sum to at most the duration of the instance, and
\* no name's exclusive cycles, nor its reported excl, are negative.
C10_ChildrenFitInParent ==
    (ReportDone /\ WellFormed) =>
        /\ \A p \in Rows :
              SumOver(Attributed(p), [c \in Attributed(p) |-> Dur(tmzones[c])])
                <= Dur(tmzones[p])
        /\ \A G \in Groups(tmzones) : ExclCycles(tmzones, G, engine) >= 0
        /\ \A k \in 1..Len(out) : ~out[k].excl.isnull => out[k].excl.v >= 0

\* C10 witness: a report over a well-formed table in which an instance has
\* two children of non-zero duration
C10_Witness ==
    /\ ReportDone /\ WellFormed
    /\ \E p \in Rows : \E c, d \in Attributed(p) :
          c # d /\ Dur(tmzones[c]) > 0 /\ Dur(tmzones[d]) > 0

----------------------------------------------------------------------------
(* Properties of the calibration *)

CalDone == call.fn = "get_clocks_per_second_from_rows" /\ ret.kind # "none"

\* C3 as stated: the calibration fails for want of samples when and only when
\* fewer than 2 samples are supplied: 0 or 1 samples raise the error, 2 or
\* more do not.
C3_FailsIffFewerThanTwoSamples ==
    CalDone =>
        /\ Len(call.rows) < 2 => ret.kind = "IndexError"
        /\ Len(call.rows) >= 2 => ret.kind # "IndexError"

\* C8: when the calibration succeeds, its result is
\* ((cycle[mid+1] - cycle[mid]) / (tick[mid+1] - tick[mid])) * ticks_per_second
\* with mid = floor(len / 2), indices counted from 0; the doctest's rows with
\* ticks_per_second = 100 give 1000.
C8_CentralPairTimesTicksPerSecond ==
    (CalDone /\ ret.kind = "value") =>
        LET n == Len(call.rows)
            lo == call.rows[(n \div 2) + 1]
            hi == call.rows[(n \div 2) + 2]
        IN  /\ (n \div 2) + 2 <= n
            /\ hi[1] # lo[1]
            /\ ret.den > 0
            /\ ret.num * (hi[1] - lo[1])
                 = ret.den * ((hi[2] - lo[2]) * call.ticks_per_second)
            /\ (call.rows = DoctestRows /\ call.ticks_per_second = DoctestTps) =>
                  (ret.num = 1000 /\ ret.den = 1)

\* C8 witness: the doctest's call has returned 1000
C8_Witness ==
    /\ CalDone /\ call.rows = DoctestRows /\ call.ticks_per_second = DoctestTps
    /\ ret = [kind |-> "value", num |-> 1000, den |-> 1]

----------------------------------------------------------------------------
(* Properties of the query builder *)

QueryDone == call.fn = "build_query_string" /\ ret.kind = "value"

\* The pieces of q before its first " FROM ", without the leading "SELECT "
FromPos(q) == CHOOSE i \in 1..Len(q) : q[i] = " FROM " /\ \A k \in 1..(i - 1) : q[k] # " FROM "
SelectList(q) == SubSeq(q, 2, FromPos(q) - 1)
\* The pieces of q after "FROM <table> ", without the final " <filter>"
JoinList(q) == SubSeq(q, FromPos(q) + 3, Len(q) - 2)

RECURSIVE Split(_, _)
\* The items of a list of pieces, cut at every separator piece
Split(q, sep) ==
    IF \A i \in 1..Len(q) : q[i] # sep THEN <<q>>
    ELSE LET i == CHOOSE k \in 1..Len(q) : q[k] = sep /\ \A m \in 1..(k - 1) : q[m] # sep
         IN  <<SubSeq(q, 1, i - 1)>> \o Split(SubSeq(q, i + 1, Len(q)), sep)

NonEmpty(items) == SelectSeq(items, LAMBDA x : Len(x) > 0)

\* C6 as stated: with no text columns and at least one plain column, the
\* select list is exactly the plain columns in their order, separated by
\* ", " with no item left empty, and the query joins no dictionary.
C6_PlainProjectionWellFormed ==
    (QueryDone /\ Len(call.text_columns) = 0 /\ Len(call.normal_columns) > 0) =>
        /\ Split(SelectList(ret.str), ", ")
             = [i \in 1..Len(call.normal_columns) |-> <<call.normal_columns[i]>>]
        /\ \A i \in 1..Len(ret.str) : ret.str[i] # "LEFT JOIN tmexpandedtext AS "

C11_StoreNotChangedDurably ==
    [][dump_zone_totals_exclusive =>
          /\ tmzones' = tmzones
          /\ (status' = "ok" => "ZoneTotals" \notin views')]_vars

====
